---- MODULE Spec2Model ----
(***************************************************************************)
(* Model of the index image build pipeline of iib/workers/tasks/build.py:  *)
(* handle_add_request and handle_rm_request with every helper they call,   *)
(* the remote registry they read and write, the host's local image store   *)
(* and the request store they report to.                                   *)
(***************************************************************************)
EXTENDS Integers, Sequences, FiniteSets, TLC

\* ------------------------------------------------------------------ bounds
MaxBundles == 2
MaxAddArches == 1
MaxTagMoves == 2

\* ------------------------------------------------------- values and config
None == "<None>"

\* Python truthiness of a pull specification argument (None and '' are falsy).
Truthy(s) == s \notin {None, ""}

RequestIds == {1, 2}

Arches == {"amd64", "arm64", "s390x"}

\* The architecture names in ascending (lexicographic) order.
ArchOrder == <<"amd64", "arm64", "s390x">>

Range(s) == {s[i] : i \in 1..Len(s)}

SeqsUpTo(S, n) == UNION {[1..k -> S] : k \in 0..n}

\* sorted(arches) of build.py, for a set of architecture names.
SortedArches(arches) == SelectSeq(ArchOrder, LAMBDA a : a \in arches)

RECURSIVE Join(_, _)
\* sep.join(strs)
Join(strs, sep) ==
    IF Len(strs) = 0 THEN ""
    ELSE IF Len(strs) = 1 THEN strs[1]
    ELSE strs[1] \o sep \o Join(Tail(strs), sep)

\* The worker configuration read by get_rebuilt_index_image.
IibRegistry == "registry"

\* conf['iib_image_push_template'].format(registry=..., request_id=...)
get_rebuilt_index_image(request_id) ==
    IibRegistry \o "/iib-build:" \o ToString(request_id)

\* The pull specification without its arch suffix.
ExternalPullSpecWithoutArch(request_id, arch, include_transport) ==
    LET pull_spec == get_rebuilt_index_image(request_id)
    IN  IF include_transport THEN "docker://" \o pull_spec ELSE pull_spec

_get_external_arch_pull_spec(request_id, arch, include_transport) ==
    LET pull_spec == get_rebuilt_index_image(request_id) \o "-" \o arch
    IN  IF include_transport THEN "docker://" \o pull_spec ELSE pull_spec

_get_local_pull_spec(request_id, arch) ==
    "iib-build:" \o ToString(request_id) \o "-" \o arch

\* -------------------------------------------------- the remote registry
BinaryImage == "registry/opm:latest"
FromIndex == "registry/index:latest"

\* skopeo's "Name" of a tag reference.
RepoName(pull_spec) ==
    IF pull_spec = BinaryImage THEN "registry/opm" ELSE "registry/index"

\* The digests a tag can point at, in the order an external actor moves it.
DigestsOf(pull_spec) ==
    IF pull_spec = BinaryImage THEN <<"sha256:b1", "sha256:b2">>
    ELSE <<"sha256:i1", "sha256:i2">>

Digests == {"sha256:b1", "sha256:b2", "sha256:i1", "sha256:i2"}

ManifestListType == "application/vnd.docker.distribution.manifest.list.v2+json"
ManifestType == "application/vnd.docker.distribution.manifest.v2+json"
SchemaV1Type == "application/vnd.docker.distribution.manifest.v1+json"

\* What skopeo inspect reports of an image: --raw gives mediaType and, for a
\* list, its member manifests; without --raw it gives Architecture.
ManifestList(archs) ==
    [mediaType |-> ManifestListType,
     manifests |-> [i \in 1..Len(archs) |-> [platform |-> [architecture |-> archs[i]]]],
     Architecture |-> archs[1]]
SingleManifest(arch) ==
    [mediaType |-> ManifestType, manifests |-> <<>>, Architecture |-> arch]
SchemaV1Manifest(arch) ==
    [mediaType |-> SchemaV1Type, manifests |-> <<>>, Architecture |-> arch]

BinaryManifestPool ==
    {ManifestList(<<"amd64", "arm64", "amd64">>), SingleManifest("arm64"),
     SchemaV1Manifest("amd64")}
IndexManifestPool ==
    {ManifestList(<<"amd64">>), ManifestList(<<"arm64", "amd64">>)}

\* The arches a caller asks for in add_arches.
AddArchesPool == {"arm64", "s390x"}

\* ------------------------------------------------------------ the bundles
RequiredLabel == "com.redhat.delivery.operator.bundle"
PackageLabel == "operators.operatorframework.io.bundle.package.v1"

BundlePool == {"bundle-ok", "bundle-bad", "bundle-none"}

\* get_image_labels(bundle): the labels of the bundle images of the registry.
BundleLabels(bundle) ==
    IF bundle = "bundle-ok"
    THEN [l \in {RequiredLabel, PackageLabel} |->
            IF l = RequiredLabel THEN "true" ELSE "operator-a"]
    ELSE IF bundle = "bundle-bad"
    THEN [l \in {RequiredLabel, PackageLabel} |->
            IF l = RequiredLabel THEN "false" ELSE "operator-b"]
    ELSE [l \in {} |-> ""]

\* labels.get(label)
Get(labels, label) == IF label \in DOMAIN labels THEN labels[label] ELSE None

\* conf['iib_required_labels'] as its items(), in order.
RequiredLabelsPool == {<<>>, << <<RequiredLabel, "true">> >>}

VARIABLES
    pc,          \* pc[r]: where request r's task is
    inp,         \* inp[r]: the arguments request r's task was called with
    conf,        \* the worker configuration (iib_required_labels)
    loc,         \* loc[r]: the local variables of request r's task
    err,         \* err[r]: the message of the exception the task raised, or None
    log,         \* log[r]: the external calls request r's task has made, in order
    store,       \* store[r]: the payloads persisted for request r, in order
    scratch,     \* scratch[r]: the temporary directories of r that exist
    tagDigest,   \* the digest each tag of the remote registry points at
    manifestOf,  \* the manifest of every digest of the remote registry
    tagMoves,    \* how many times an external actor has repointed a tag
    movable,     \* the tags an external actor may repoint
    registry,    \* what has been pushed: a set of <<reference, content>>
    localImages  \* the host's local container image store

vars == <<pc, inp, conf, loc, err, log, store, scratch, tagDigest, manifestOf,
          tagMoves, movable, registry, localImages>>


\* ---------------------------------------------------------- pure helpers
\* The digest-pinned reference built from skopeo's Name and Digest.
ResolvedSpec(name, digest) == name \o "@" \o digest

\* What skopeo inspect docker://<pull_spec> finds: a tag is looked up at the
\* digest it points at now, a digest-pinned reference at its digest.
DigestAt(pull_spec, tags) ==
    IF pull_spec \in DOMAIN tags THEN tags[pull_spec]
    ELSE CHOOSE d \in Digests :
            \E t \in DOMAIN tags : pull_spec = ResolvedSpec(RepoName(t), d)

\* _get_image_arches with every manifest that is not a list taken for a
\* single-arch v2 manifest (the last branch an else instead of a raise).
ImageArchesOfAnyManifest(skopeo_raw, skopeo_out) ==
    IF skopeo_raw.mediaType = ManifestListType
    THEN [ok |-> TRUE, second |-> FALSE,
          arches |-> {skopeo_raw.manifests[i].platform.architecture :
                        i \in 1..Len(skopeo_raw.manifests)}]
    ELSE [ok |-> TRUE, second |-> TRUE, arches |-> {skopeo_out.Architecture}]

\* _get_image_arches, given the outputs of its skopeo inspections:
\* [ok, arches, second] where second says that the non-raw inspection ran.
_get_image_arches(skopeo_raw, skopeo_out) ==
    IF skopeo_raw.mediaType = ManifestListType
    THEN [ok |-> TRUE, second |-> FALSE,
          arches |-> {skopeo_raw.manifests[i].platform.architecture :
                        i \in 1..Len(skopeo_raw.manifests)}]
    ELSE IF skopeo_raw.mediaType = ManifestType
    THEN [ok |-> TRUE, second |-> TRUE, arches |-> {skopeo_out.Architecture}]
    ELSE [ok |-> FALSE, second |-> FALSE, arches |-> {}]

\* The arches with add_arches left out.
InitialArchesIgnored(add_arches) == {}

\* The arches of _prepare_request_for_build before the base index is read.
InitialArches(add_arches) ==
    IF Len(add_arches) > 0 THEN Range(add_arches) ELSE {}

\* arches = arches or from_index_arches
MergeArchesUnlessRequested(arches, from_index_arches) ==
    IF arches # {} THEN arches ELSE from_index_arches

\* arches = arches | from_index_arches
MergeArches(arches, from_index_arches) == arches \cup from_index_arches

\* The checks without the one against the arches of the binary image.
ArchesErrorEmptyOnly(arches, binary_image_arches) ==
    IF arches = {} THEN "No arches were provided to build the index image"
    ELSE None

\* The two checks of _prepare_request_for_build on the computed arches:
\* the message of the error raised, or None.
ArchesError(arches, binary_image_arches) ==
    IF arches = {} THEN "No arches were provided to build the index image"
    ELSE IF ~(arches \subseteq binary_image_arches)
    THEN "The binary image is not available for the following arches: "
            \o Join(SortedArches(arches \ binary_image_arches), ", ")
    ELSE None

\* The check with labels.get(label, value): a missing label passes.
RECURSIVE LabelErrorPresentOnly(_, _, _)
LabelErrorPresentOnly(bundle, labels, required) ==
    IF Len(required) = 0 THEN None
    ELSE IF required[1][1] \in DOMAIN labels /\ labels[required[1][1]] # required[1][2]
    THEN "The bundle " \o bundle \o " does not have the label "
            \o required[1][1] \o "=" \o required[1][2]
    ELSE LabelErrorPresentOnly(bundle, labels, Tail(required))

\* The first (label, value) of the required labels the bundle does not carry,
\* as the message _verify_labels raises, or None.
RECURSIVE LabelError(_, _, _)
LabelError(bundle, labels, required) ==
    IF Len(required) = 0 THEN None
    ELSE IF Get(labels, required[1][1]) # required[1][2]
    THEN "The bundle " \o bundle \o " does not have the label "
            \o required[1][1] \o "=" \o required[1][2]
    ELSE LabelError(bundle, labels, Tail(required))

\* bundle_mapping.setdefault(operator, []).append(bundle)
AddToMapping(mapping, operator, bundle) ==
    IF operator \in DOMAIN mapping
    THEN [mapping EXCEPT ![operator] = Append(@, bundle)]
    ELSE [o \in DOMAIN mapping \cup {operator} |->
            IF o = operator THEN <<bundle>> ELSE mapping[o]]

\* The descriptor with its entries in the order the set happens to iterate
\* (here descending), without sorted().
ManifestYamlUnsorted(request_id, arches) ==
    LET sorted == SortedArches(arches)
        order == [i \in 1..Len(sorted) |-> sorted[Len(sorted) + 1 - i]]
    IN  [image |-> get_rebuilt_index_image(request_id),
         manifests |-> [i \in 1..Len(order) |->
            [image |-> _get_external_arch_pull_spec(request_id, order[i], FALSE),
             architecture |-> order[i],
             os |-> "linux"]]]

\* The content _create_and_push_manifest_list writes to manifest.yaml.
ManifestYaml(request_id, arches) ==
    LET order == SortedArches(arches)
    IN  [image |-> get_rebuilt_index_image(request_id),
         manifests |-> [i \in 1..Len(order) |->
            [image |-> _get_external_arch_pull_spec(request_id, order[i], FALSE),
             architecture |-> order[i],
             os |-> "linux"]]]

\* The registry reference a tool writes for a plain pull specification.
Docker(pull_spec) == "docker://" \o pull_spec

\* registry with content pushed at ref (a push replaces what was there).
Put(reg, ref, content) == {p \in reg : p[1] # ref} \cup {<<ref, content>>}

Published(reg, ref) == \E p \in reg : p[1] = ref

\* ------------------------------------------------------------------ Init
EmptyMapping == [o \in {} |-> <<>>]

InitLoc ==
    [i |-> 1, legacy_support_packages |-> {}, arches |-> {},
     binary_image_resolved |-> None, binary_image_arches |-> {},
     from_index_resolved |-> None, bundle_mapping |-> EmptyMapping,
     dockerfile |-> None, manifest_yaml |-> None, output_pull_spec |-> None]

NoRequest ==
    [kind |-> "none", bundles |-> <<>>, binary_image |-> BinaryImage,
     from_index |-> None, add_arches |-> <<>>]

AddRequests ==
    [kind : {"add"}, bundles : SeqsUpTo(BundlePool, MaxBundles),
     binary_image : {BinaryImage}, from_index : {None, FromIndex},
     add_arches : SeqsUpTo(AddArchesPool, MaxAddArches)]

RmRequests ==
    [kind : {"rm"}, bundles : {<<>>}, binary_image : {BinaryImage},
     from_index : {FromIndex}, add_arches : SeqsUpTo(AddArchesPool, MaxAddArches)]

FirstStep(request) ==
    IF request.kind = "add" THEN "verify_labels"
    ELSE IF request.kind = "rm" THEN "cleanup" ELSE "idle"

\* An image an earlier request left in the host's store.
StaleImage == "iib-build:0-amd64"

\* The state once the scheduler has started the task of request 1 on the host.
Init ==
    /\ \E request \in AddRequests \cup RmRequests :
          /\ inp = [r \in RequestIds |-> IF r = 1 THEN request ELSE NoRequest]
          /\ conf \in [iib_required_labels :
                        IF request.kind = "add" THEN RequiredLabelsPool ELSE {<<>>}]
          /\ \E bm \in BinaryManifestPool :
             \E im \in (IF Truthy(request.from_index)
                        THEN IndexManifestPool ELSE {ManifestList(<<"amd64">>)}) :
                manifestOf = [d \in Digests |->
                    IF d = "sha256:b1" THEN bm
                    ELSE IF d = "sha256:i1" THEN im
                    ELSE IF d = "sha256:b2" THEN ManifestList(<<"amd64">>)
                    ELSE ManifestList(<<"amd64", "arm64">>)]
    /\ pc = [r \in RequestIds |-> FirstStep(inp[r])]
    /\ loc = [r \in RequestIds |-> InitLoc]
    /\ err = [r \in RequestIds |-> None]
    /\ log = [r \in RequestIds |-> <<>>]
    /\ store = [r \in RequestIds |-> <<>>]
    /\ scratch = [r \in RequestIds |-> {}]
    /\ tagDigest = [t \in {BinaryImage, FromIndex} |-> DigestsOf(t)[1]]
    /\ tagMoves = 0
    /\ movable = {FromIndex}
    /\ registry = {}
    /\ localImages = {StaleImage}


\* ------------------------------------------------------- action helpers
Ev(op, arg, ok) == [op |-> op, arg |-> arg, ok |-> ok]

Logged(r, events) == log' = [log EXCEPT ![r] = @ \o events]

Goto(r, label) == pc' = [pc EXCEPT ![r] = label]

\* The error caught and logged by the handler instead of propagating: the
\* task returns normally.
RaiseSwallowed(r, message) ==
    /\ pc' = [pc EXCEPT ![r] = "done"]
    /\ err' = [err EXCEPT ![r] = message]

\* The task raises: nothing after the raising statement runs.
Raise(r, message) ==
    /\ pc' = [pc EXCEPT ![r] = "raised"]
    /\ err' = [err EXCEPT ![r] = message]

\* The request store persists a payload for request r.
Persist(r, payload) == store' = [store EXCEPT ![r] = Append(@, payload)]

\* The message of the error an external collaborator (skopeo_inspect,
\* get_image_labels, the request store, the legacy module) raises.
ExternalError(op, arg) == "Failed: " \o op \o " " \o arg

\* run_cmd raises IIBError(exc_msg) when the command exits non-zero.
RunCmdRaises(ok) == ~ok

\* ------------------------------------------------- handle_add_request
\* One iteration of the loop of _verify_labels (or its return).
VerifyLabels(r) ==
    /\ pc[r] = "verify_labels"
    /\ LET bundles == inp[r].bundles
           required == conf.iib_required_labels
           i == loc[r].i
       IN  IF Len(required) = 0 \/ i > Len(bundles)
           THEN /\ Goto(r, "get_legacy")
                /\ loc' = [loc EXCEPT ![r].i = 1]
                /\ UNCHANGED <<err, log>>
           ELSE \E ok \in BOOLEAN :
                /\ Logged(r, <<Ev("get_image_labels", bundles[i], ok)>>)
                /\ IF ~ok
                   THEN /\ Raise(r, ExternalError("get_image_labels", bundles[i]))
                        /\ UNCHANGED loc
                   ELSE LET e == LabelError(bundles[i], BundleLabels(bundles[i]), required)
                        IN  IF e # None
                            THEN Raise(r, e) /\ UNCHANGED loc
                            ELSE /\ loc' = [loc EXCEPT ![r].i = i + 1]
                                 /\ UNCHANGED <<pc, err>>
    /\ UNCHANGED <<inp, conf, store, scratch, tagDigest, manifestOf, tagMoves,
                   movable, registry, localImages>>

\* The operator packages of the bundles: none of them or all of them need
\* legacy support.
PackagesOf(bundles) ==
    {Get(BundleLabels(bundles[i]), PackageLabel) : i \in 1..Len(bundles)} \ {None}

\* legacy_support_packages = get_legacy_support_packages(bundles)
GetLegacy(r) ==
    /\ pc[r] = "get_legacy"
    /\ \E ok \in BOOLEAN :
          /\ Logged(r, <<Ev("get_legacy_support_packages", "", ok)>>)
          /\ IF ~ok
             THEN /\ Raise(r, ExternalError("get_legacy_support_packages", ""))
                  /\ UNCHANGED loc
             ELSE \E packages \in {{}, PackagesOf(inp[r].bundles)} :
                  /\ loc' = [loc EXCEPT ![r].legacy_support_packages = packages]
                  /\ Goto(r, IF packages # {} THEN "validate_legacy" ELSE "cleanup")
                  /\ UNCHANGED err
    /\ UNCHANGED <<inp, conf, store, scratch, tagDigest, manifestOf, tagMoves,
                   movable, registry, localImages>>

\* validate_legacy_params_and_config(...)
ValidateLegacy(r) ==
    /\ pc[r] = "validate_legacy"
    /\ \E ok \in BOOLEAN :
          /\ Logged(r, <<Ev("validate_legacy_params_and_config", "", ok)>>)
          /\ IF ~ok
             THEN Raise(r, ExternalError("validate_legacy_params_and_config", ""))
             ELSE Goto(r, "cleanup") /\ UNCHANGED err
    /\ UNCHANGED <<inp, conf, loc, store, scratch, tagDigest, manifestOf, tagMoves,
                   movable, registry, localImages>>

\* _cleanup() called again inside the loop, before the push.
CleanupBeforePush(r) ==
    \/ /\ pc[r] = "cleanup"
       /\ \E ok \in BOOLEAN :
             /\ Logged(r, <<Ev("podman rmi", "--all", ok)>>)
             /\ IF RunCmdRaises(ok)
                THEN /\ Raise(r, "Failed to remove the existing container images")
                     /\ \E left \in SUBSET localImages : localImages' = left
                ELSE /\ Goto(r, "set_resolving")
                     /\ localImages' = {}
                     /\ UNCHANGED err
       /\ UNCHANGED <<inp, conf, loc, store, scratch, tagDigest, manifestOf, tagMoves,
                      movable, registry>>
    \/ /\ pc[r] = "push"
       /\ localImages # {}
       /\ Logged(r, <<Ev("podman rmi", "--all", TRUE)>>)
       /\ localImages' = {}
       /\ UNCHANGED <<pc, inp, conf, loc, err, store, scratch, tagDigest, manifestOf,
                      tagMoves, movable, registry>>

\* ------------------------------------------------------------- _cleanup
\* podman rmi --all --force: on success no local image is left; a failed run
\* may have removed any of them.
Cleanup(r) ==
    /\ pc[r] = "cleanup"
    /\ \E ok \in BOOLEAN :
          /\ Logged(r, <<Ev("podman rmi", "--all", ok)>>)
          /\ IF RunCmdRaises(ok)
             THEN /\ Raise(r, "Failed to remove the existing container images")
                  /\ \E left \in SUBSET localImages : localImages' = left
             ELSE /\ Goto(r, "set_resolving")
                  /\ localImages' = {}
                  /\ UNCHANGED err
    /\ UNCHANGED <<inp, conf, loc, store, scratch, tagDigest, manifestOf, tagMoves,
                   movable, registry>>


\* ------------------------------------------- _prepare_request_for_build
\* set_request_state(request_id, 'in_progress', 'Resolving the images'), then
\* arches = set(add_arches) or set().
SetResolving(r) ==
    /\ pc[r] = "set_resolving"
    /\ \E ok \in BOOLEAN :
          /\ Logged(r, <<Ev("set_request_state", "Resolving the images", ok)>>)
          /\ IF ~ok
             THEN /\ Raise(r, ExternalError("set_request_state", "in_progress"))
                  /\ UNCHANGED <<store, loc>>
             ELSE /\ Persist(r, [state |-> "in_progress",
                                 state_reason |-> "Resolving the images"])
                  /\ loc' = [loc EXCEPT ![r].arches = InitialArches(inp[r].add_arches)]
                  /\ Goto(r, "resolve_binary")
                  /\ UNCHANGED err
    /\ UNCHANGED <<inp, conf, scratch, tagDigest, manifestOf, tagMoves, movable,
                   registry, localImages>>

\* _get_resolved_image(pull_spec) against the registry as it is now.
_get_resolved_image(pull_spec, tags) ==
    ResolvedSpec(RepoName(pull_spec), DigestAt(pull_spec, tags))

\* binary_image_resolved = _get_resolved_image(binary_image)
ResolveBinary(r) ==
    /\ pc[r] = "resolve_binary"
    /\ \E ok \in BOOLEAN :
          /\ Logged(r, <<Ev("skopeo_inspect", Docker(inp[r].binary_image), ok)>>)
          /\ IF ~ok
             THEN /\ Raise(r, ExternalError("skopeo_inspect", inp[r].binary_image))
                  /\ UNCHANGED loc
             ELSE /\ loc' = [loc EXCEPT ![r].binary_image_resolved =
                                _get_resolved_image(inp[r].binary_image, tagDigest)]
                  /\ Goto(r, "binary_arches")
                  /\ UNCHANGED err
    /\ UNCHANGED <<inp, conf, store, scratch, tagDigest, manifestOf, tagMoves,
                   movable, registry, localImages>>

\* One call of _get_image_arches(pull_spec) whose inspections end rawok and
\* outok: [ok, arches, events, error].
ImageArches(pull_spec, rawok, outok) ==
    LET m == manifestOf[DigestAt(pull_spec, tagDigest)]
        res == _get_image_arches(m, m)
        first == <<Ev("skopeo_inspect_raw", Docker(pull_spec), rawok)>>
    IN  IF ~rawok
        THEN [ok |-> FALSE, arches |-> {}, events |-> first,
              error |-> ExternalError("skopeo_inspect", pull_spec)]
        ELSE IF ~res.ok
        THEN [ok |-> FALSE, arches |-> {}, events |-> first,
              error |-> "The pull specification of " \o pull_spec
                        \o " is neither a v2 manifest list nor a v2 manifest"]
        ELSE IF res.second
        THEN [ok |-> outok, arches |-> res.arches,
              events |-> first \o <<Ev("skopeo_inspect", Docker(pull_spec), outok)>>,
              error |-> ExternalError("skopeo_inspect", pull_spec)]
        ELSE [ok |-> TRUE, arches |-> res.arches, events |-> first, error |-> None]

\* binary_image_arches = _get_image_arches(binary_image_resolved), then the
\* branch on from_index.
BinaryArches(r) ==
    /\ pc[r] = "binary_arches"
    /\ \E rawok \in BOOLEAN, outok \in BOOLEAN :
          LET res == ImageArches(loc[r].binary_image_resolved, rawok, outok)
          IN  /\ Logged(r, res.events)
              /\ IF ~res.ok
                 THEN Raise(r, res.error) /\ UNCHANGED loc
                 ELSE /\ loc' = [loc EXCEPT ![r].binary_image_arches = res.arches]
                      /\ Goto(r, IF Truthy(inp[r].from_index)
                                 THEN "resolve_index" ELSE "check_arches")
                      /\ UNCHANGED err
    /\ UNCHANGED <<inp, conf, store, scratch, tagDigest, manifestOf, tagMoves,
                   movable, registry, localImages>>

\* from_index_resolved = _get_resolved_image(from_index)
ResolveIndex(r) ==
    /\ pc[r] = "resolve_index"
    /\ \E ok \in BOOLEAN :
          /\ Logged(r, <<Ev("skopeo_inspect", Docker(inp[r].from_index), ok)>>)
          /\ IF ~ok
             THEN /\ Raise(r, ExternalError("skopeo_inspect", inp[r].from_index))
                  /\ UNCHANGED loc
             ELSE /\ loc' = [loc EXCEPT ![r].from_index_resolved =
                                _get_resolved_image(inp[r].from_index, tagDigest)]
                  /\ Goto(r, "index_arches")
                  /\ UNCHANGED err
    /\ UNCHANGED <<inp, conf, store, scratch, tagDigest, manifestOf, tagMoves,
                   movable, registry, localImages>>

\* from_index_arches = _get_image_arches(from_index_resolved);
\* arches = arches | from_index_arches
IndexArches(r) ==
    /\ pc[r] = "index_arches"
    /\ \E rawok \in BOOLEAN, outok \in BOOLEAN :
          LET res == ImageArches(loc[r].from_index_resolved, rawok, outok)
          IN  /\ Logged(r, res.events)
              /\ IF ~res.ok
                 THEN Raise(r, res.error) /\ UNCHANGED loc
                 ELSE /\ loc' = [loc EXCEPT ![r].arches = MergeArches(@, res.arches)]
                      /\ Goto(r, "check_arches")
                      /\ UNCHANGED err
    /\ UNCHANGED <<inp, conf, store, scratch, tagDigest, manifestOf, tagMoves,
                   movable, registry, localImages>>

\* if not arches: raise ...; if not arches.issubset(binary_image_arches): raise ...
CheckArches(r) ==
    /\ pc[r] = "check_arches"
    /\ LET e == ArchesError(loc[r].arches, loc[r].binary_image_arches)
       IN  IF e # None
           THEN Raise(r, e) /\ UNCHANGED loc
           ELSE /\ Goto(r, "bundle_mapping")
                /\ loc' = [loc EXCEPT ![r].i = 1]
                /\ UNCHANGED err
    /\ UNCHANGED <<inp, conf, log, store, scratch, tagDigest, manifestOf, tagMoves,
                   movable, registry, localImages>>

\* One iteration of the loop that fills bundle_mapping (or its end).
BundleMapping(r) ==
    /\ pc[r] = "bundle_mapping"
    /\ LET bundles == IF inp[r].kind = "add" THEN inp[r].bundles ELSE <<>>
           i == loc[r].i
       IN  IF i > Len(bundles)
           THEN /\ Goto(r, "update_building")
                /\ UNCHANGED <<loc, err, log>>
           ELSE \E ok \in BOOLEAN :
                /\ Logged(r, <<Ev("get_image_labels", bundles[i], ok)>>)
                /\ IF ~ok
                   THEN /\ Raise(r, ExternalError("get_image_labels", bundles[i]))
                        /\ UNCHANGED loc
                   ELSE LET operator == Get(BundleLabels(bundles[i]), PackageLabel)
                        IN  /\ loc' = [loc EXCEPT
                                  ![r].i = i + 1,
                                  ![r].bundle_mapping =
                                      IF Truthy(operator)
                                      THEN AddToMapping(@, operator, bundles[i])
                                      ELSE @]
                            /\ UNCHANGED <<pc, err>>
    /\ UNCHANGED <<inp, conf, store, scratch, tagDigest, manifestOf, tagMoves,
                   movable, registry, localImages>>

\* The payload _prepare_request_for_build persists before the build.
BuildingPayload(l) ==
    LET base == [binary_image_resolved |-> l.binary_image_resolved,
                 bundle_mapping |-> l.bundle_mapping,
                 state |-> "in_progress",
                 state_reason |->
                    "Building the index image for the following arches: "
                        \o Join(SortedArches(l.arches), ", ")]
    IN  IF Truthy(l.from_index_resolved)
        THEN [binary_image_resolved |-> base.binary_image_resolved,
              bundle_mapping |-> base.bundle_mapping,
              state |-> base.state,
              state_reason |-> base.state_reason,
              from_index_resolved |-> l.from_index_resolved]
        ELSE base

\* update_request(request_id, payload, exc_msg)
UpdateBuilding(r) ==
    /\ pc[r] = "update_building"
    /\ \E ok \in BOOLEAN :
          /\ Logged(r, <<Ev("update_request", "in_progress", ok)>>)
          /\ IF ~ok
             THEN /\ Raise(r, "Failed setting the resolved images on the request")
                  /\ UNCHANGED store
             ELSE /\ Persist(r, BuildingPayload(loc[r]))
                  /\ Goto(r, "opm")
                  /\ UNCHANGED err
    /\ UNCHANGED <<inp, conf, loc, scratch, tagDigest, manifestOf, tagMoves,
                   movable, registry, localImages>>


\* ------------------------------------------------ the build and the push
\* The binary image handed to the opm command (--binary-image).
OpmBinaryImage(request, l) ==
    IF request.kind = "add" THEN l.binary_image_resolved ELSE request.binary_image

\* Whether the opm command is given --from-index.
OpmUsesFromIndex(request) ==
    IF request.kind = "add" THEN Truthy(request.from_index) ELSE TRUE

\* What the opm command generated in the scratch directory: the images it
\* read, at the digests they had when it ran.
Dockerfile(request, l, tags) ==
    [binary_image |-> OpmBinaryImage(request, l),
     binary_digest |-> DigestAt(OpmBinaryImage(request, l), tags),
     from_index |-> IF OpmUsesFromIndex(request) THEN request.from_index ELSE None,
     from_index_digest |->
        IF OpmUsesFromIndex(request) THEN DigestAt(request.from_index, tags) ELSE None]

OpmName(request) == IF request.kind = "add" THEN "opm index add" ELSE "opm index rm"

OpmError(request) ==
    IF request.kind = "add" THEN "Failed to add the bundles to the index image"
    ELSE "Failed to remove operators from the index image"

\* with tempfile.TemporaryDirectory(prefix='iib-') as temp_dir:
\*     _opm_index_add(...) or _opm_index_rm(...)
Opm(r) ==
    /\ pc[r] = "opm"
    /\ \E ok \in BOOLEAN :
          /\ Logged(r, <<Ev(OpmName(inp[r]), OpmBinaryImage(inp[r], loc[r]), ok)>>)
          /\ IF RunCmdRaises(ok)
             THEN /\ Raise(r, OpmError(inp[r]))
                  /\ scratch' = [scratch EXCEPT ![r] = @ \ {"build"}]
                  /\ UNCHANGED loc
             ELSE /\ loc' = [loc EXCEPT
                        ![r].dockerfile = Dockerfile(inp[r], loc[r], tagDigest),
                        ![r].i = 1]
                  /\ scratch' = [scratch EXCEPT ![r] = @ \cup {"build"}]
                  /\ Goto(r, "build")
                  /\ UNCHANGED err
    /\ UNCHANGED <<inp, conf, store, tagDigest, manifestOf, tagMoves, movable,
                   registry, localImages>>

\* The loop over sorted(arches, reverse=True).
LoopOrderDescending(arches) ==
    LET sorted == SortedArches(arches)
    IN  [i \in 1..Len(sorted) |-> sorted[Len(sorted) + 1 - i]]

\* The order in which the loop of the handlers walks the arches.
LoopOrder(arches) == SortedArches(arches)

\* _build_image whose build succeeds without the image being tagged (no -t).
BuildImageWithoutTag(r) ==
    /\ pc[r] = "build"
    /\ LET arch == LoopOrder(loc[r].arches)[loc[r].i]
       IN  \E ok \in BOOLEAN :
             /\ Logged(r, <<Ev("buildah bud", arch, ok)>>)
             /\ IF RunCmdRaises(ok)
                THEN /\ Raise(r, "Failed to build the index image on the arch " \o arch)
                     /\ scratch' = [scratch EXCEPT ![r] = @ \ {"build"}]
                ELSE /\ Goto(r, "push")
                     /\ UNCHANGED <<err, scratch>>
    /\ UNCHANGED <<inp, conf, loc, store, tagDigest, manifestOf, tagMoves, movable,
                   registry, localImages>>

\* _build_image with the exit status of buildah ignored.
BuildImageIgnoringFailure(r) ==
    /\ pc[r] = "build"
    /\ LET arch == LoopOrder(loc[r].arches)[loc[r].i]
       IN  \E ok \in BOOLEAN :
             /\ Logged(r, <<Ev("buildah bud", arch, ok)>>)
             /\ localImages' = IF ok
                               THEN localImages \cup {_get_local_pull_spec(r, arch)}
                               ELSE localImages
             /\ Goto(r, "push")
             /\ UNCHANGED <<err, scratch>>
    /\ UNCHANGED <<inp, conf, loc, store, tagDigest, manifestOf, tagMoves, movable,
                   registry>>

\* _build_image(temp_dir, request_id, arch) for the arch the loop is at.
BuildImage(r) ==
    /\ pc[r] = "build"
    /\ LET arch == LoopOrder(loc[r].arches)[loc[r].i]
       IN  \E ok \in BOOLEAN :
             /\ Logged(r, <<Ev("buildah bud", arch, ok)>>)
             /\ IF RunCmdRaises(ok)
                THEN /\ Raise(r, "Failed to build the index image on the arch " \o arch)
                     /\ scratch' = [scratch EXCEPT ![r] = @ \ {"build"}]
                     /\ UNCHANGED localImages
                ELSE /\ localImages' = localImages \cup {_get_local_pull_spec(r, arch)}
                     /\ Goto(r, "push")
                     /\ UNCHANGED <<err, scratch>>
    /\ UNCHANGED <<inp, conf, loc, store, tagDigest, manifestOf, tagMoves, movable,
                   registry>>

\* The request names a base index.
HasFromIndex(request) == request.kind = "rm" \/ Truthy(request.from_index)

\* The verification left out of the rm handler.
NeedsVerifyOnlyForAdd(request) ==
    request.kind = "add" /\ Truthy(request.from_index)

\* if from_index: (add) / unconditionally (rm): _verify_index_image(...)
NeedsVerify(request) ==
    IF request.kind = "add" THEN Truthy(request.from_index) ELSE TRUE

\* The loop with the index generation inside it.
AfterPushRegenerating(request, arches, i) ==
    IF i < Len(LoopOrder(arches)) THEN "opm"
    ELSE IF NeedsVerify(request) THEN "verify_index" ELSE "set_manifest"

\* Where the task goes once _push_image returned for the arch at position i.
AfterPush(request, arches, i) ==
    IF i < Len(LoopOrder(arches)) THEN "build"
    ELSE IF NeedsVerify(request) THEN "verify_index" ELSE "set_manifest"

\* The reference podman push writes.
PushDestination(request_id, arch) ==
    _get_external_arch_pull_spec(request_id, arch, TRUE)

\* _push_image with the exit status of podman push ignored.
PushImageIgnoringFailure(r) ==
    /\ pc[r] = "push"
    /\ LET arch == LoopOrder(loc[r].arches)[loc[r].i]
           source == _get_local_pull_spec(r, arch)
           destination == PushDestination(r, arch)
       IN  \E ok \in (IF source \in localImages THEN BOOLEAN ELSE {FALSE}) :
             /\ Logged(r, <<Ev("podman push", arch, ok)>>)
             /\ registry' = IF ok
                            THEN Put(registry, destination,
                                     [kind |-> "image", request |-> r, arch |-> arch])
                            ELSE registry
             /\ Goto(r, AfterPush(inp[r], loc[r].arches, loc[r].i))
             /\ loc' = [loc EXCEPT ![r].i = @ + 1]
             /\ scratch' = [scratch EXCEPT ![r] =
                    IF loc[r].i < Len(LoopOrder(loc[r].arches))
                    THEN @ ELSE @ \ {"build"}]
             /\ UNCHANGED err
    /\ UNCHANGED <<inp, conf, store, tagDigest, manifestOf, tagMoves, movable,
                   localImages>>

\* _push_image(request_id, arch): podman push fails when the local image is
\* not in the host's store.
PushImage(r) ==
    /\ pc[r] = "push"
    /\ LET arch == LoopOrder(loc[r].arches)[loc[r].i]
           source == _get_local_pull_spec(r, arch)
           destination == PushDestination(r, arch)
       IN  \E ok \in (IF source \in localImages THEN BOOLEAN ELSE {FALSE}) :
             /\ Logged(r, <<Ev("podman push", arch, ok)>>)
             /\ IF RunCmdRaises(ok)
                THEN /\ Raise(r, "Failed to push the index image to " \o destination
                                    \o " for the arch " \o arch)
                     /\ scratch' = [scratch EXCEPT ![r] = @ \ {"build"}]
                     /\ UNCHANGED <<registry, loc>>
                ELSE /\ registry' = Put(registry, destination,
                                        [kind |-> "image", request |-> r, arch |-> arch])
                     /\ Goto(r, AfterPush(inp[r], loc[r].arches, loc[r].i))
                     /\ loc' = [loc EXCEPT ![r].i = @ + 1]
                     /\ scratch' = [scratch EXCEPT ![r] =
                            IF loc[r].i < Len(LoopOrder(loc[r].arches))
                            THEN @ ELSE @ \ {"build"}]
                     /\ UNCHANGED err
    /\ UNCHANGED <<inp, conf, store, tagDigest, manifestOf, tagMoves, movable,
                   localImages>>

\* The comparison with the pre-build reference on both sides.
IndexChangedAgainstItself(resolved_prebuild_from_index, resolved_post_build_from_index) ==
    resolved_prebuild_from_index # resolved_prebuild_from_index

\* if resolved_post_build_from_index != resolved_prebuild_from_index: raise
IndexChanged(resolved_prebuild_from_index, resolved_post_build_from_index) ==
    resolved_post_build_from_index # resolved_prebuild_from_index

StaleIndexMessage ==
    "The supplied from_index image changed during the IIB request."
        \o " Please resubmit the request."

\* _verify_index_image(prebuild_info['from_index_resolved'], from_index): the
\* log keeps the inspection and then what the comparison found.
VerifyIndex(r) ==
    /\ pc[r] = "verify_index"
    /\ \E ok \in BOOLEAN :
          LET post == _get_resolved_image(inp[r].from_index, tagDigest)
              changed == IndexChanged(loc[r].from_index_resolved, post)
          IN  IF ~ok
              THEN /\ Logged(r, <<Ev("skopeo_inspect", Docker(inp[r].from_index), ok)>>)
                   /\ Raise(r, ExternalError("skopeo_inspect", inp[r].from_index))
              ELSE /\ Logged(r, <<Ev("skopeo_inspect", Docker(inp[r].from_index), ok),
                                  Ev("_verify_index_image", post, ~changed)>>)
                   /\ IF changed
                      THEN Raise(r, StaleIndexMessage)
                      ELSE Goto(r, "set_manifest") /\ UNCHANGED err
    /\ UNCHANGED <<inp, conf, loc, store, scratch, tagDigest, manifestOf, tagMoves,
                   movable, registry, localImages>>

\* ------------------------------------------------------ the manifest list
\* set_request_state(request_id, 'in_progress', 'Creating the manifest list')
SetManifest(r) ==
    /\ pc[r] = "set_manifest"
    /\ \E ok \in BOOLEAN :
          /\ Logged(r, <<Ev("set_request_state", "Creating the manifest list", ok)>>)
          /\ IF ~ok
             THEN /\ Raise(r, ExternalError("set_request_state", "in_progress"))
                  /\ UNCHANGED store
             ELSE /\ Persist(r, [state |-> "in_progress",
                                 state_reason |-> "Creating the manifest list"])
                  /\ Goto(r, "write_manifest")
                  /\ UNCHANGED err
    /\ UNCHANGED <<inp, conf, loc, scratch, tagDigest, manifestOf, tagMoves, movable,
                   registry, localImages>>

\* _create_and_push_manifest_list up to the run of manifest-tool: the
\* temporary directory is created and manifest.yaml is written.
WriteManifest(r) ==
    /\ pc[r] = "write_manifest"
    /\ loc' = [loc EXCEPT ![r].manifest_yaml = ManifestYaml(r, loc[r].arches)]
    /\ scratch' = [scratch EXCEPT ![r] = @ \cup {"manifest"}]
    /\ Goto(r, "manifest_tool")
    /\ UNCHANGED <<inp, conf, err, log, store, tagDigest, manifestOf, tagMoves,
                   movable, registry, localImages>>

\* The handler without the export branch.
AfterManifestWithoutExport(request, l) == "finish"

\* Where the handler goes once the manifest list is pushed.
AfterManifest(request, l) ==
    IF request.kind = "add" /\ l.legacy_support_packages # {}
    THEN "export" ELSE "finish"

\* The directory made with mkdtemp and removed at the end of the function:
\* a failed manifest-tool run leaves it behind.
ManifestToolLeavingDirOnFailure(r) ==
    /\ pc[r] = "manifest_tool"
    /\ LET yaml == loc[r].manifest_yaml
           present == \A i \in 1..Len(yaml.manifests) :
                         Published(registry, Docker(yaml.manifests[i].image))
       IN  \E ok \in (IF present THEN BOOLEAN ELSE {FALSE}) :
             /\ Logged(r, <<Ev("manifest-tool push", yaml.image, ok)>>)
             /\ IF RunCmdRaises(ok)
                THEN /\ Raise(r, "Failed to push the manifest list to "
                                    \o get_rebuilt_index_image(r))
                     /\ UNCHANGED <<registry, loc, scratch>>
                ELSE /\ registry' = Put(registry, Docker(yaml.image),
                                        [kind |-> "list", manifests |-> yaml.manifests])
                     /\ loc' = [loc EXCEPT ![r].output_pull_spec =
                                    get_rebuilt_index_image(r)]
                     /\ scratch' = [scratch EXCEPT ![r] = @ \ {"manifest"}]
                     /\ Goto(r, AfterManifest(inp[r], loc[r]))
                     /\ UNCHANGED err
    /\ UNCHANGED <<inp, conf, store, tagDigest, manifestOf, tagMoves, movable,
                   localImages>>

\* manifest-tool push from-spec manifest.yaml, the exit of the with block and
\* the return of the canonical pull specification. The tool fails when an
\* image the descriptor names is not in the registry.
ManifestTool(r) ==
    /\ pc[r] = "manifest_tool"
    /\ LET yaml == loc[r].manifest_yaml
           present == \A i \in 1..Len(yaml.manifests) :
                         Published(registry, Docker(yaml.manifests[i].image))
       IN  \E ok \in (IF present THEN BOOLEAN ELSE {FALSE}) :
             /\ Logged(r, <<Ev("manifest-tool push", yaml.image, ok)>>)
             /\ scratch' = [scratch EXCEPT ![r] = @ \ {"manifest"}]
             /\ IF RunCmdRaises(ok)
                THEN /\ Raise(r, "Failed to push the manifest list to "
                                    \o get_rebuilt_index_image(r))
                     /\ UNCHANGED <<registry, loc>>
                ELSE /\ registry' = Put(registry, Docker(yaml.image),
                                        [kind |-> "list", manifests |-> yaml.manifests])
                     /\ loc' = [loc EXCEPT ![r].output_pull_spec =
                                    get_rebuilt_index_image(r)]
                     /\ Goto(r, AfterManifest(inp[r], loc[r]))
                     /\ UNCHANGED err
    /\ UNCHANGED <<inp, conf, store, tagDigest, manifestOf, tagMoves, movable,
                   localImages>>

\* opm_index_export(legacy_support_packages, request_id, output_pull_spec, ...)
Export(r) ==
    /\ pc[r] = "export"
    /\ \E ok \in BOOLEAN :
          /\ Logged(r, <<Ev("opm_index_export", loc[r].output_pull_spec, ok)>>)
          /\ IF ~ok
             THEN Raise(r, ExternalError("opm_index_export", loc[r].output_pull_spec))
             ELSE Goto(r, "finish") /\ UNCHANGED err
    /\ UNCHANGED <<inp, conf, loc, store, scratch, tagDigest, manifestOf, tagMoves,
                   movable, registry, localImages>>

\* The payload with the state of the payload before it.
CompletePayloadInProgress(output_pull_spec, arches) ==
    [arches |-> arches,
     index_image |-> output_pull_spec,
     state |-> "in_progress",
     state_reason |-> "The request completed successfully"]

\* The payload of _finish_request_post_build.
CompletePayload(output_pull_spec, arches) ==
    [arches |-> arches,
     index_image |-> output_pull_spec,
     state |-> "complete",
     state_reason |-> "The request completed successfully"]

\* _finish_request_post_build called with the arches of the binary image.
FinishReportingBinaryArches(r) ==
    /\ pc[r] = "finish"
    /\ \E ok \in BOOLEAN :
          /\ Logged(r, <<Ev("update_request", "complete", ok)>>)
          /\ IF ~ok
             THEN /\ Raise(r, "Failed setting the index image on the request")
                  /\ UNCHANGED store
             ELSE /\ Persist(r, CompletePayload(loc[r].output_pull_spec,
                                                loc[r].binary_image_arches))
                  /\ Goto(r, "done")
                  /\ UNCHANGED err
    /\ UNCHANGED <<inp, conf, loc, scratch, tagDigest, manifestOf, tagMoves, movable,
                   registry, localImages>>

\* _finish_request_post_build(output_pull_spec, request_id, arches)
Finish(r) ==
    /\ pc[r] = "finish"
    /\ \E ok \in BOOLEAN :
          /\ Logged(r, <<Ev("update_request", "complete", ok)>>)
          /\ IF ~ok
             THEN /\ Raise(r, "Failed setting the index image on the request")
                  /\ UNCHANGED store
             ELSE /\ Persist(r, CompletePayload(loc[r].output_pull_spec, loc[r].arches))
                  /\ Goto(r, "done")
                  /\ UNCHANGED err
    /\ UNCHANGED <<inp, conf, loc, scratch, tagDigest, manifestOf, tagMoves, movable,
                   registry, localImages>>

\* ------------------------------------------------- the failure callback
\* The error callback the request was queued with: it persists the state
\* failed with the message of the error as the reason.
FailedRequestCallback(r) ==
    /\ pc[r] = "raised"
    /\ Persist(r, [state |-> "failed", state_reason |-> err[r]])
    /\ Goto(r, "failed")
    /\ UNCHANGED <<inp, conf, loc, err, log, scratch, tagDigest, manifestOf,
                   tagMoves, movable, registry, localImages>>

\* ------------------------------------------------------ the environment
InFlight(r) == pc[r] \notin {"idle", "done", "failed"}

\* The task of request r has yet to read tag t: the binary image is read last
\* by the opm command, the base index by _verify_index_image. A move that no
\* task can see any more is left out.
WillRead(r, t) ==
    /\ InFlight(r)
    /\ pc[r] # "raised"
    /\ \/ /\ t = inp[r].binary_image
          /\ pc[r] \in {"verify_labels", "get_legacy", "validate_legacy", "cleanup",
                        "set_resolving", "resolve_binary", "binary_arches",
                        "resolve_index", "index_arches", "check_arches",
                        "bundle_mapping", "update_building", "opm"}
       \/ /\ t = inp[r].from_index
          /\ pc[r] \notin {"set_manifest", "write_manifest", "manifest_tool",
                           "export", "finish"}
          /\ HasFromIndex(inp[r])

\* An external actor repoints a tag to the next digest it can hold.
OtherDigest(t, d) == IF d = DigestsOf(t)[1] THEN DigestsOf(t)[2] ELSE DigestsOf(t)[1]

MoveTag(t) ==
    /\ tagMoves < MaxTagMoves
    /\ \E r \in RequestIds : WillRead(r, t)
    /\ tagDigest' = [tagDigest EXCEPT ![t] = OtherDigest(t, @)]
    /\ tagMoves' = tagMoves + 1
    /\ UNCHANGED <<pc, inp, conf, loc, err, log, store, scratch, manifestOf, movable,
                   registry, localImages>>

Next ==
    \/ \E r \in RequestIds :
          \/ VerifyLabels(r)
          \/ GetLegacy(r)
          \/ ValidateLegacy(r)
          \/ Cleanup(r)
          \/ SetResolving(r)
          \/ ResolveBinary(r)
          \/ BinaryArches(r)
          \/ ResolveIndex(r)
          \/ IndexArches(r)
          \/ CheckArches(r)
          \/ BundleMapping(r)
          \/ UpdateBuilding(r)
          \/ Opm(r)
          \/ BuildImage(r)
          \/ PushImage(r)
          \/ VerifyIndex(r)
          \/ SetManifest(r)
          \/ WriteManifest(r)
          \/ ManifestTool(r)
          \/ Export(r)
          \/ Finish(r)
          \/ FailedRequestCallback(r)
    \/ \E t \in movable : MoveTag(t)

Spec == Init /\ [][Next]_vars


\* --------------------------------------------------- a task that runs on
\* One step of the task of request r, the failure callback included.
TaskStep(r) ==
    \/ VerifyLabels(r)
    \/ GetLegacy(r)
    \/ ValidateLegacy(r)
    \/ Cleanup(r)
    \/ SetResolving(r)
    \/ ResolveBinary(r)
    \/ BinaryArches(r)
    \/ ResolveIndex(r)
    \/ IndexArches(r)
    \/ CheckArches(r)
    \/ BundleMapping(r)
    \/ UpdateBuilding(r)
    \/ Opm(r)
    \/ BuildImage(r)
    \/ PushImage(r)
    \/ VerifyIndex(r)
    \/ SetManifest(r)
    \/ WriteManifest(r)
    \/ ManifestTool(r)
    \/ Export(r)
    \/ Finish(r)
    \/ FailedRequestCallback(r)

\* Every external tool call and store call returns, and the worker goes on
\* with the statement after it: a task that can take a step takes one. The
\* external actor that moves tags is under no such obligation.
SpecFair == Init /\ [][Next]_vars /\ \A r \in RequestIds : WF_vars(TaskStep(r))

\* ------------------------------------------- two requests on one host
\* The tasks of an add request and of an rm request started on the same
\* host: neither handler takes a lock or looks at the other.
InitConcurrent ==
    /\ \E from_index \in {None, FromIndex} :
          inp = [r \in RequestIds |->
                    IF r = 1
                    THEN [kind |-> "add", bundles |-> <<"bundle-ok">>,
                          binary_image |-> BinaryImage, from_index |-> from_index,
                          add_arches |-> <<>>]
                    ELSE [kind |-> "rm", bundles |-> <<>>,
                          binary_image |-> BinaryImage, from_index |-> FromIndex,
                          add_arches |-> <<>>]]
    /\ conf = [iib_required_labels |-> << <<RequiredLabel, "true">> >>]
    /\ manifestOf = [d \in Digests |->
                        IF d \in {"sha256:b1", "sha256:b2"}
                        THEN ManifestList(<<"amd64", "arm64">>)
                        ELSE ManifestList(<<"amd64">>)]
    /\ pc = [r \in RequestIds |-> FirstStep(inp[r])]
    /\ loc = [r \in RequestIds |-> InitLoc]
    /\ err = [r \in RequestIds |-> None]
    /\ log = [r \in RequestIds |-> <<>>]
    /\ store = [r \in RequestIds |-> <<>>]
    /\ scratch = [r \in RequestIds |-> {}]
    /\ tagDigest = [t \in {BinaryImage, FromIndex} |-> DigestsOf(t)[1]]
    /\ tagMoves = 0
    /\ movable = {FromIndex}
    /\ registry = {}
    /\ localImages = {StaleImage}

SpecConcurrent == InitConcurrent /\ [][Next]_vars

\* ============================================================== claims
Active == {r \in RequestIds : inp[r].kind # "none"}

Failed(r) == pc[r] \in {"raised", "failed"}

\* The positions of log[r] that hold a call of op, and those that succeeded.
Events(r, op) == {i \in 1..Len(log[r]) : log[r][i].op = op}
OkEvents(r, op) == {i \in Events(r, op) : log[r][i].ok}

HasBaseIndex(r) == inp[r].kind = "rm" \/ Truthy(inp[r].from_index)

Persisted(r, state) == \E i \in 1..Len(store[r]) : store[r][i].state = state

\* C1: the manifest list is at the canonical reference only after every
\* required arch was built and then pushed and, with a base index, after the
\* verification passed; a per-arch push writes only '<canonical>-<arch>',
\* never a canonical reference; a run that failed without a successful
\* manifest-tool run has nothing at its canonical reference.
C1_CanonicalOnlyAfterAllArches ==
    \A r \in Active :
        LET canonical == "docker://" \o get_rebuilt_index_image(r)
        IN  /\ Published(registry, canonical) =>
                /\ loc[r].arches # {}
                /\ \A a \in loc[r].arches :
                      \E i \in OkEvents(r, "buildah bud"), j \in OkEvents(r, "podman push") :
                          /\ log[r][i].arg = a
                          /\ log[r][j].arg = a
                          /\ i < j
                          /\ \A m \in Events(r, "manifest-tool push") : j < m
                /\ HasBaseIndex(r) =>
                      \E v \in OkEvents(r, "_verify_index_image") :
                          /\ \A j \in Events(r, "podman push") : j < v
                          /\ \A m \in Events(r, "manifest-tool push") : v < m
                /\ OkEvents(r, "manifest-tool push") # {}
                /\ \A p \in registry : p[1] = canonical => p[2].kind = "list"
            /\ \A p \in registry :
                  p[2].kind = "image" =>
                      /\ p[1] = "docker://" \o get_rebuilt_index_image(p[2].request)
                                    \o "-" \o p[2].arch
                      /\ p[1] # canonical
            /\ (Failed(r) /\ OkEvents(r, "manifest-tool push") = {}) =>
                  ~Published(registry, canonical)

\* A run whose manifest-tool failed after two arches were staged.
C1_Witness ==
    \E r \in Active :
        /\ pc[r] = "failed"
        /\ Events(r, "manifest-tool push") # {}
        /\ Cardinality(OkEvents(r, "podman push")) = 2
        /\ Cardinality({p \in registry : p[2].kind = "image"}) = 2
        /\ ~Published(registry, "docker://" \o get_rebuilt_index_image(r))

\* C2: with a base index, a digest resolved at verification time that differs
\* from the one resolved before the build fails the request with the
\* stale-index error, without any manifest assembly and without complete; and
\* no such request gets to the manifest list without a passed verification
\* that followed the last push.
C2_StaleIndexFails ==
    \A r \in Active :
        HasBaseIndex(r) =>
            /\ \A v \in Events(r, "_verify_index_image") :
                  log[r][v].arg # loc[r].from_index_resolved =>
                      /\ Failed(r)
                      /\ err[r] = StaleIndexMessage
                      /\ loc[r].manifest_yaml = None
                      /\ Events(r, "manifest-tool push") = {}
                      /\ ~Persisted(r, "complete")
                      /\ ~Published(registry, "docker://" \o get_rebuilt_index_image(r))
            /\ (pc[r] \in {"set_manifest", "write_manifest", "manifest_tool", "export",
                           "finish", "done"}
                \/ \E i \in Events(r, "set_request_state") :
                      log[r][i].arg = "Creating the manifest list"
                \/ Persisted(r, "complete")) =>
                  \E v \in OkEvents(r, "_verify_index_image") :
                      /\ log[r][v].arg = loc[r].from_index_resolved
                      /\ \A j \in Events(r, "podman push") : j < v

\* The base index moved during the build and the verification caught it.
C2_Witness ==
    \E r \in Active :
        /\ pc[r] = "failed"
        /\ err[r] = StaleIndexMessage
        /\ \E v \in Events(r, "_verify_index_image") :
              log[r][v].arg # loc[r].from_index_resolved
        /\ OkEvents(r, "podman push") # {}


ExpectedLifecycle(r) ==
    << <<"in_progress", "Resolving the images">>,
       <<"in_progress", "Building the index image for the following arches: "
                            \o Join(SortedArches(loc[r].arches), ", ")>>,
       <<"in_progress", "Creating the manifest list">>,
       <<"complete", "The request completed successfully">> >>

LifecycleInOrder(r) ==
    LET s == store[r]
        n == Len(s)
        hasFailed == n > 0 /\ s[n].state = "failed"
        body == IF hasFailed THEN SubSeq(s, 1, n - 1) ELSE s
    IN  /\ Len(body) <= 4
        /\ \A i \in 1..Len(body) :
              <<body[i].state, body[i].state_reason>> = ExpectedLifecycle(r)[i]
        /\ hasFailed => Len(body) < 4
        /\ pc[r] = "done" => (~hasFailed /\ Len(body) = 4)

\* C4: the states persisted are a prefix of resolving, building,
\* manifest-list, complete, in that order and each at most once, optionally
\* ended by failed; a run that succeeds persists all four; and once complete or
\* failed is persisted no state is reported and no call is made any more.
C4_LifecycleMonotonic ==
    /\ [](\A r \in Active : LifecycleInOrder(r))
    /\ [][\A r \in Active :
            (Persisted(r, "complete") \/ Persisted(r, "failed")) =>
                (store'[r] = store[r] /\ log'[r] = log[r])]_vars

\* A run that succeeded and one can see all four states of.
C4_Witness ==
    \E r \in Active :
        /\ pc[r] = "done"
        /\ Len(store[r]) = 4
        /\ store[r][4].state = "complete"
        /\ store[r][2].state_reason =
              "Building the index image for the following arches: amd64, arm64"

\* The architectures an image of the registry really provides.
ProvidedArches(pull_spec) ==
    IF pull_spec = None THEN {}
    ELSE LET m == manifestOf[DigestAt(pull_spec, tagDigest)]
         IN  IF m.mediaType = ManifestListType
             THEN {m.manifests[i].platform.architecture : i \in 1..Len(m.manifests)}
             ELSE {m.Architecture}

\* The arches request r has built, pushed.
Built(r) == {log[r][i].arg : i \in Events(r, "buildah bud")}
Pushed(r) == {log[r][i].arg : i \in Events(r, "podman push")}

\* Index generation, a build, a push or the manifest assembly has run.
BuildWork(r) ==
    \/ Events(r, "opm index add") \cup Events(r, "opm index rm") # {}
    \/ Built(r) \cup Pushed(r) # {}
    \/ Events(r, "manifest-tool push") # {}
    \/ loc[r].dockerfile # None
    \/ loc[r].manifest_yaml # None

\* The steps of a task before the checks on the computed arches have run.
BeforeArchesChecked ==
    {"idle", "verify_labels", "get_legacy", "validate_legacy", "cleanup",
     "set_resolving", "resolve_binary", "binary_arches", "resolve_index",
     "index_arches", "check_arches"}

ArchesAcceptable(r) ==
    /\ loc[r].arches # {}
    /\ loc[r].arches \subseteq ProvidedArches(loc[r].binary_image_resolved)
    /\ Truthy(inp[r].from_index) =>
          ProvidedArches(loc[r].from_index_resolved) \subseteq loc[r].arches

\* C5: in an add request the arches that are built contain the arches of the
\* base index (when one is given) and are among those of the resolved binary
\* image; a computed set that is empty or has an arch the binary image lacks
\* fails the request before index generation, any build or push and the
\* manifest assembly.
C5_AddArchesBounded ==
    \A r \in Active :
        inp[r].kind = "add" =>
            /\ (BuildWork(r) \/ (pc[r] \notin BeforeArchesChecked /\ ~Failed(r))) =>
                  ArchesAcceptable(r)
            /\ Built(r) \cup Pushed(r) \subseteq loc[r].arches
            /\ pc[r] = "done" => (Built(r) = loc[r].arches /\ Pushed(r) = loc[r].arches)
            /\ (pc[r] \notin BeforeArchesChecked
                /\ (loc[r].arches = {}
                    \/ ~(loc[r].arches \subseteq
                            ProvidedArches(loc[r].binary_image_resolved)))) =>
                  (Failed(r) /\ ~BuildWork(r))

\* The base index has an arch (amd64) the binary image lacks: the add request failed
\* before any build work.
C5_Witness ==
    \E r \in Active :
        /\ inp[r].kind = "add"
        /\ inp[r].add_arches = <<>>
        /\ pc[r] = "failed"
        /\ err[r] = "The binary image is not available for the following arches: amd64"
        /\ ~BuildWork(r)

\* The arches of the base index request r resolved before the build.
BaseArches(r) == ProvidedArches(loc[r].from_index_resolved)

\* The arches the manifest list published for request r names.
ListedArches(r) ==
    UNION {{p[2].manifests[i].architecture : i \in 1..Len(p[2].manifests)} :
            p \in {q \in registry :
                     q[1] = "docker://" \o get_rebuilt_index_image(r)}}

\* The arches the complete payload of request r reports.
ReportedArches(r) ==
    UNION {store[r][i].arches :
            i \in {j \in 1..Len(store[r]) : store[r][j].state = "complete"}}

AfterPrepare ==
    {"opm", "build", "push", "verify_index", "set_manifest", "write_manifest",
     "manifest_tool", "export", "finish", "done"}

\* Every call request r has made so far succeeded.
AllCallsOk(r) == \A i \in 1..Len(log[r]) : log[r][i].ok

\* The setup of the examples: the binary image resolves to the arches amd64
\* and arm64, the base index to amd64.
ExampleSetup(r) ==
    /\ Truthy(inp[r].from_index)
    /\ ProvidedArches("registry/opm@sha256:b1") = {"amd64", "arm64"}
    /\ ProvidedArches("registry/index@sha256:i1") = {"amd64"}
    /\ loc[r].from_index_resolved \in {None, "registry/index@sha256:i1"}

\* C7: the arches _prepare_request_for_build returns are the arches of
\* add_arches together with those of the base index (of add_arches alone
\* without a base index). In the example setup add_arches=[] gives {amd64},
\* and add_arches=["s390x"] never gets through the resolution: it fails on
\* the arch the binary image lacks.
C7_EffectiveArchesAreUnion ==
    \A r \in Active :
        /\ pc[r] \in AfterPrepare =>
              loc[r].arches =
                  Range(inp[r].add_arches)
                      \cup (IF Truthy(inp[r].from_index) THEN BaseArches(r) ELSE {})
        /\ (ExampleSetup(r) /\ inp[r].add_arches = <<>> /\ pc[r] \in AfterPrepare) =>
              loc[r].arches = {"amd64"}
        /\ (ExampleSetup(r) /\ inp[r].add_arches = <<"s390x">>) =>
              /\ pc[r] \notin AfterPrepare
              /\ (Failed(r) /\ AllCallsOk(r) /\ loc[r].from_index_resolved # None) =>
                        err[r] = "The binary image is not available for the "
                                    \o "following arches: s390x"

\* The second example: add_arches=["s390x"] failed the resolution.
C7_Witness ==
    \E r \in Active :
        /\ ExampleSetup(r)
        /\ inp[r].add_arches = <<"s390x">>
        /\ loc[r].arches = {"amd64", "s390x"}
        /\ pc[r] = "failed"
        /\ err[r] = "The binary image is not available for the following arches: s390x"

\* The position of the first bundle that lacks a required label value, or 0.
FirstBadBundle(bundles, required) ==
    LET bad == {i \in 1..Len(bundles) :
                  \E k \in 1..Len(required) :
                      \/ required[k][1] \notin DOMAIN BundleLabels(bundles[i])
                      \/ BundleLabels(bundles[i])[required[k][1]] # required[k][2]}
    IN  IF bad = {} THEN 0 ELSE CHOOSE i \in bad : \A j \in bad : i <= j

\* Request r has changed nothing outside itself: it has reported no state but
\* failed, pushed nothing and holds no scratch directory.
NoSideEffects(r) ==
    /\ \A i \in 1..Len(store[r]) : store[r][i].state = "failed"
    /\ \A p \in registry :
          /\ p[1] # "docker://" \o get_rebuilt_index_image(r)
          /\ p[2].kind = "image" => p[2].request # r
    /\ scratch[r] = {}
    /\ ~BuildWork(r)

\* C8: an add request with a bundle that lacks a required label value reads
\* the labels of the bundles up to the first such bundle and fails there: it
\* cleans, reports, resolves, generates, builds and pushes nothing. With an
\* empty policy _verify_labels reads nothing and rejects nothing.
C8_LabelPolicyFailsFast ==
    \A r \in Active :
        inp[r].kind = "add" =>
            LET required == conf.iib_required_labels
                k == FirstBadBundle(inp[r].bundles, required)
            IN  /\ k > 0 =>
                    /\ pc[r] \in {"verify_labels", "raised", "failed"}
                    /\ Len(log[r]) <= k
                    /\ \A i \in 1..Len(log[r]) :
                          /\ log[r][i].op = "get_image_labels"
                          /\ log[r][i].arg = inp[r].bundles[i]
                    /\ NoSideEffects(r)
                    /\ (Len(log[r]) = k /\ log[r][k].ok) =>
                          /\ Failed(r)
                          /\ err[r] = "The bundle " \o inp[r].bundles[k]
                                        \o " does not have the label "
                                        \o RequiredLabel \o "=true"
                /\ Len(required) = 0 =>
                    /\ Len(log[r]) > 0 => log[r][1].op = "get_legacy_support_packages"
                    /\ Failed(r) => Len(log[r]) > 0

\* The second bundle has no labels: the request failed on it and on nothing
\* else.
C8_Witness ==
    \E r \in Active :
        /\ inp[r].bundles = <<"bundle-ok", "bundle-none">>
        /\ pc[r] = "failed"
        /\ Len(log[r]) = 2
        /\ err[r] = "The bundle bundle-none does not have the label "
                        \o "com.redhat.delivery.operator.bundle=true"
        /\ NoSideEffects(r)

\* A step of request r has failed.
StepFailed(r) == err[r] # None \/ ~AllCallsOk(r)

\* What request r has pushed: its per-arch images and its manifest list.
OfRequest(p, r) ==
    \/ p[1] = "docker://" \o get_rebuilt_index_image(r)
    \/ (p[2].kind = "image" /\ p[2].request = r)

\* C9: once a step of a request has failed, a failure of the request store
\* included, the task makes no further call: the failed call is the last of
\* the log, nothing is pushed, built or removed for it any more and nothing
\* but failed is persisted.
C9_NothingRunsAfterFailure ==
    /\ [](\A r \in Active :
            /\ \A i \in 1..Len(log[r]) : ~log[r][i].ok => i = Len(log[r])
            /\ StepFailed(r) => (Failed(r) /\ ~Persisted(r, "complete")))
    /\ [][\A r \in Active :
            StepFailed(r) =>
                /\ log'[r] = log[r]
                /\ loc'[r] = loc[r]
                /\ scratch'[r] = scratch[r]
                /\ store'[r] \in {store[r],
                        Append(store[r], [state |-> "failed", state_reason |-> err[r]])}
                /\ {p \in registry' : OfRequest(p, r)} = {p \in registry : OfRequest(p, r)}
              ]_vars

\* The request store failed on the manifest-list report, after the pushes.
C9_Witness ==
    \E r \in Active :
        /\ pc[r] = "failed"
        /\ Len(log[r]) > 0
        /\ log[r][Len(log[r])] =
              [op |-> "set_request_state", arg |-> "Creating the manifest list",
               ok |-> FALSE]
        /\ Cardinality(Pushed(r)) = 2
        /\ Events(r, "manifest-tool push") = {}

\* How many calls of op with argument arg request r has made.
Calls(r, op, arg) == Cardinality({i \in Events(r, op) : log[r][i].arg = arg})

OpmEvents(r) == Events(r, "opm index add") \cup Events(r, "opm index rm")

\* C10: index generation runs at most once in a request; every build and
\* push comes after its successful run; no arch is built or pushed twice;
\* and once the loop is through, generation has run once and every required
\* arch was built once and pushed once.
C10_GenerateOnceBuildOncePerArch ==
    \A r \in Active :
        /\ Cardinality(OpmEvents(r)) <= 1
        /\ \A i \in Events(r, "buildah bud") \cup Events(r, "podman push") :
              \E g \in OpmEvents(r) : log[r][g].ok /\ g < i
        /\ \A a \in Arches :
              /\ Calls(r, "buildah bud", a) <= 1
              /\ Calls(r, "podman push", a) <= 1
              /\ Calls(r, "podman push", a) <= Calls(r, "buildah bud", a)
        /\ pc[r] \in {"verify_index", "set_manifest", "write_manifest",
                      "manifest_tool", "export", "finish", "done"} =>
              /\ Cardinality(OpmEvents(r)) = 1
              /\ \A a \in loc[r].arches :
                    /\ Calls(r, "buildah bud", a) = 1
                    /\ Calls(r, "podman push", a) = 1
              /\ Built(r) = loc[r].arches
              /\ Pushed(r) = loc[r].arches

\* A request of two arches completed: one generation, two builds, two pushes.
C10_Witness ==
    \E r \in Active :
        /\ pc[r] = "done"
        /\ loc[r].arches = {"amd64", "arm64"}
        /\ Cardinality(OpmEvents(r)) = 1
        /\ Cardinality(Events(r, "buildah bud")) = 2
        /\ Cardinality(Events(r, "podman push")) = 2


\* The calls of request r that resolve, generate, build, push or assemble.
WorkOps ==
    {"set_request_state", "skopeo_inspect", "skopeo_inspect_raw", "update_request",
     "opm index add", "opm index rm", "buildah bud", "podman push",
     "_verify_index_image", "manifest-tool push", "opm_index_export"}

\* C11: with one request executing on the host, the host cleanup runs once
\* and before every resolution, generation, build and push call of the
\* request, and whenever the request is about to push an arch, the local image
\* 'iib-build:<request_id>-<arch>' its preceding build tagged is in the
\* host's local image store.
C11_CleanupSafeWhenExclusive ==
    \A r \in Active :
        /\ Cardinality(Events(r, "podman rmi")) <= 1
        /\ \A c \in Events(r, "podman rmi") :
              \A e \in 1..Len(log[r]) : log[r][e].op \in WorkOps => c < e
        /\ pc[r] = "push" =>
              LET last == log[r][Len(log[r])]
              IN  /\ last.op = "buildah bud"
                  /\ last.ok
                  /\ ("iib-build:" \o ToString(r) \o "-" \o last.arg) \in localImages
                  /\ _get_local_pull_spec(r, last.arg) \in localImages

\* The request is about to push its second arch: the cleanup removed the stale
\* image and both images the request built are in the store.
C11_Witness ==
    \E r \in Active :
        /\ pc[r] = "push"
        /\ OkEvents(r, "podman rmi") # {}
        /\ Cardinality(OkEvents(r, "podman push")) = 1
        /\ StaleImage \notin localImages
        /\ localImages = {"iib-build:1-amd64", "iib-build:1-arm64"}


\* The place of an architecture name in ascending name order.
ArchRank(a) == CHOOSE i \in 1..Len(ArchOrder) : ArchOrder[i] = a

\* yaml is the descriptor of request id for the arches: the canonical image,
\* one entry per arch, in ascending order of the arch names, each entry
\* naming '<canonical>-<arch>', the arch and linux.
DescriptorFor(yaml, id, arches) ==
    LET canonical == "registry/iib-build:" \o ToString(id)
        n == Len(yaml.manifests)
    IN  /\ yaml.image = canonical
        /\ n = Cardinality(arches)
        /\ {yaml.manifests[i].architecture : i \in 1..n} = arches
        /\ \A i \in 1..n, j \in 1..n :
              i < j => ArchRank(yaml.manifests[i].architecture)
                          < ArchRank(yaml.manifests[j].architecture)
        /\ \A i \in 1..n :
              /\ yaml.manifests[i].image
                    = canonical \o "-" \o yaml.manifests[i].architecture
              /\ yaml.manifests[i].os = "linux"

\* C12: for every request id and every set of arches the descriptor that
\* _create_and_push_manifest_list writes names the canonical pull
\* specification and has exactly one entry per arch, in ascending order of the
\* arch names, each with image '<canonical>-<arch>', that arch and os linux;
\* this is checked, wherever a run has just written its descriptor, of every
\* id and set it could have been called with; the descriptor a run wrote is
\* that one, so that runs with the same id and arches write the same content.
C12_DescriptorSortedAndExact ==
    /\ (\E r \in Active : pc[r] = "manifest_tool") =>
          \A id \in RequestIds, arches \in SUBSET Arches :
              DescriptorFor(ManifestYaml(id, arches), id, arches)
    /\ \A r \in Active :
          (pc[r] = "manifest_tool" \/ Events(r, "manifest-tool push") # {}) =>
              DescriptorFor(loc[r].manifest_yaml, r, loc[r].arches)

\* A run wrote the descriptor of two arches and is about to publish it.
C12_Witness ==
    \E r \in Active :
        /\ pc[r] = "manifest_tool"
        /\ loc[r].arches = {"amd64", "arm64"}
        /\ Len(loc[r].manifest_yaml.manifests) = 2
        /\ loc[r].manifest_yaml.manifests[1].architecture = "amd64"
        /\ loc[r].manifest_yaml.manifests[2].image = "registry/iib-build:1-arm64"


\* The base index reference the index generation of request r read its
\* content from, digest-pinned.
GeneratedFrom(r) ==
    ResolvedSpec(RepoName(inp[r].from_index), loc[r].dockerfile.from_index_digest)

\* C13: with the tag of the base index free to be repointed during a request,
\* every request with a base index that reaches complete generated its index
\* from the base index at the digest resolved before the build.
C13_CompleteOnlyFromResolvedBase ==
    \A r \in Active :
        (HasBaseIndex(r) /\ Persisted(r, "complete")) =>
            GeneratedFrom(r) = loc[r].from_index_resolved


\* The local image of the arch request r is about to push.
ImageToPush(r) == _get_local_pull_spec(r, log[r][Len(log[r])].arg)

\* Request r built an arch and, before its push, the image is gone.
BuiltImageMissing(r) ==
    /\ pc[r] = "push"
    /\ log[r][Len(log[r])].op = "buildah bud"
    /\ log[r][Len(log[r])].ok
    /\ ImageToPush(r) \notin localImages

\* C14: with two requests executing on one host, a request that built an arch
\* can find the image gone before its push, and this happens only after the
\* host cleanup of the other request has run; a push whose image is gone
\* fails.
C14_CleanupOfOtherCanRemoveBuiltImage ==
    \A r \in Active :
        /\ BuiltImageMissing(r) =>
              \E q \in Active \ {r} : Events(q, "podman rmi") # {}
        /\ \A i \in OkEvents(r, "podman push") :
              \E b \in OkEvents(r, "buildah bud") :
                  b < i /\ log[r][b].arg = log[r][i].arg

\* The cleanup of request 2 succeeded after request 1 built amd64 and before
\* request 1 pushed it: nothing is left in the store for the push.
C14_Witness ==
    /\ BuiltImageMissing(1)
    /\ OkEvents(2, "podman rmi") # {}
    /\ OkEvents(1, "podman rmi") # {}
    /\ localImages = {}


\* The build and push calls of request r, in the order they were made.
BuildPushCalls(r) ==
    SelectSeq(log[r], LAMBDA e : e.op \in {"buildah bud", "podman push"})

\* C15: in add and rm requests alike the build and push calls alternate,
\* build first; a push is of the arch just built and follows only a build
\* that succeeded; the next build follows only a push that succeeded and is of
\* the next arch in ascending name order, none skipped; so after a failed
\* build or push no later arch is built or pushed.
C15_LoopAscendingBuildThenPush ==
    \A r \in Active :
        LET s == BuildPushCalls(r)
        IN  \A k \in 1..Len(s) :
              /\ s[k].op = IF k % 2 = 1 THEN "buildah bud" ELSE "podman push"
              /\ s[k].arg \in loc[r].arches
              /\ k > 1 => s[k - 1].ok
              /\ k % 2 = 0 => s[k].arg = s[k - 1].arg
              /\ (k % 2 = 1 /\ k > 2) => ArchRank(s[k - 2].arg) < ArchRank(s[k].arg)
              /\ k % 2 = 1 =>
                    {a \in loc[r].arches : ArchRank(a) < ArchRank(s[k].arg)}
                        = {s[j].arg : j \in 1..(k - 1)}
              /\ ~s[k].ok => (k = Len(s) /\ Failed(r))

\* An rm request built and pushed amd64 and then arm64.
C15_Witness ==
    \E r \in Active :
        /\ inp[r].kind = "rm"
        /\ Len(BuildPushCalls(r)) = 4
        /\ BuildPushCalls(r)[1].arg = "amd64"
        /\ BuildPushCalls(r)[2] = Ev("podman push", "amd64", TRUE)
        /\ BuildPushCalls(r)[3] = Ev("buildah bud", "arm64", TRUE)
        /\ BuildPushCalls(r)[4].ok


\* The calls of request r that report the manifest-list state or publish it.
ManifestCalls(r) ==
    {i \in Events(r, "set_request_state") : log[r][i].arg = "Creating the manifest list"}
        \cup Events(r, "manifest-tool push")

\* The inspections request r made after a push: the calls of the base-index
\* verification.
VerifyCalls(r) ==
    {i \in Events(r, "skopeo_inspect") \cup Events(r, "skopeo_inspect_raw") :
        \E j \in Events(r, "podman push") : j < i}

\* Every arch of request r has been pushed.
AllPushed(r) ==
    /\ loc[r].arches # {}
    /\ {log[r][i].arg : i \in OkEvents(r, "podman push")} = loc[r].arches

\* C16: the verification of the base index is one inspection of from_index,
\* made after the last push and before the manifest-list state is reported
\* and the manifest list is published; every rm request and every add
\* request with a base index that has pushed its last arch makes it, and an
\* add request without a base index makes none and inspects no image after
\* its pushes.
C16_VerifyBetweenLoopAndManifest ==
    \A r \in Active :
        /\ Cardinality(VerifyCalls(r)) <= 1
        /\ \A v \in VerifyCalls(r) :
              /\ HasBaseIndex(r)
              /\ log[r][v].op = "skopeo_inspect"
              /\ log[r][v].arg = "docker://" \o inp[r].from_index
              /\ AllPushed(r)
              /\ \A j \in Events(r, "podman push") : j < v
              /\ \A m \in ManifestCalls(r) : v < m
        /\ \A v \in Events(r, "_verify_index_image") : (v - 1) \in VerifyCalls(r)
        /\ (HasBaseIndex(r) /\ AllPushed(r) /\ pc[r] # "verify_index") =>
              VerifyCalls(r) # {}
        /\ (HasBaseIndex(r) /\ ManifestCalls(r) # {}) =>
              \E v \in OkEvents(r, "_verify_index_image") :
                  \A m \in ManifestCalls(r) : v < m
        /\ ~HasBaseIndex(r) =>
              /\ inp[r].kind = "add"
              /\ VerifyCalls(r) = {}
              /\ Events(r, "_verify_index_image") = {}
              /\ pc[r] # "verify_index"
              /\ (AllPushed(r) /\ ~Failed(r)) =>
                    (ManifestCalls(r) # {} \/ pc[r] = "set_manifest")

\* An add request with a base index verified it after the pushes of both
\* arches and went on to the manifest list.
C16_Witness ==
    \E r \in Active :
        /\ inp[r].kind = "add"
        /\ HasBaseIndex(r)
        /\ Cardinality(OkEvents(r, "podman push")) = 2
        /\ OkEvents(r, "_verify_index_image") # {}
        /\ OkEvents(r, "manifest-tool push") # {}


\* get_legacy_support_packages returned packages for the bundles of r.
NeedsLegacy(r) == loc[r].legacy_support_packages # {}

\* The calls of request r that persist complete.
CompleteCalls(r) ==
    {i \in Events(r, "update_request") : log[r][i].arg = "complete"}

\* C17: in a request whose bundles need legacy support the validation of the
\* legacy parameters is made before the host cleanup and before every
\* resolution, generation, build and push call, and nothing of those runs
\* unless it passed; the export is made only after the manifest list was
\* published and before complete is reported, complete is not persisted
\* without a successful export, and a failed export fails the request; when
\* no bundle needs legacy support neither is called.
C17_LegacyValidatedFirstExportedLast ==
    \A r \in Active :
        LET validates == Events(r, "validate_legacy_params_and_config")
            exports == Events(r, "opm_index_export")
            work == {i \in 1..Len(log[r]) :
                        log[r][i].op \in WorkOps \cup {"podman rmi"}}
        IN  /\ Cardinality(validates) <= 1
            /\ Cardinality(exports) <= 1
            /\ \A v \in validates :
                  /\ NeedsLegacy(r)
                  /\ inp[r].kind = "add"
                  /\ \A w \in work : v < w
            /\ (NeedsLegacy(r) /\ work # {}) => (\E v \in validates : log[r][v].ok)
            /\ \A e \in exports :
                  /\ NeedsLegacy(r)
                  /\ \E m \in OkEvents(r, "manifest-tool push") : m < e
                  /\ Published(registry, "docker://" \o get_rebuilt_index_image(r))
                  /\ log[r][e].arg = get_rebuilt_index_image(r)
                  /\ \A u \in CompleteCalls(r) : e < u
                  /\ ~log[r][e].ok =>
                        (Failed(r) /\ CompleteCalls(r) = {} /\ ~Persisted(r, "complete"))
            /\ (NeedsLegacy(r) /\ (CompleteCalls(r) # {} \/ Persisted(r, "complete"))) =>
                  \E e \in exports : log[r][e].ok
            /\ ~NeedsLegacy(r) => (validates = {} /\ exports = {})

\* The export of an add request failed after its manifest list was published:
\* the request is failed and complete was never persisted.
C17_Witness ==
    \E r \in Active :
        /\ inp[r].kind = "add"
        /\ NeedsLegacy(r)
        /\ pc[r] = "failed"
        /\ OkEvents(r, "validate_legacy_params_and_config") # {}
        /\ Events(r, "opm_index_export") # {}
        /\ OkEvents(r, "opm_index_export") = {}
        /\ Published(registry, "docker://" \o get_rebuilt_index_image(r))
        /\ ~Persisted(r, "complete")


\* The calls of the index generation tool request r made.
OpmCalls(r) == Events(r, "opm index add") \cup Events(r, "opm index rm")

\* C18: in add and rm requests alike the binary image handed to the index
\* generation tool is the digest-pinned reference resolved at the start of
\* the request, the one whose arches were checked and that is persisted as
\* binary_image_resolved.
C18_OpmGetsResolvedBinaryImage ==
    \A r \in Active :
        \A i \in OpmCalls(r) :
            /\ log[r][i].arg = loc[r].binary_image_resolved
            /\ \E j \in 1..Len(store[r]) :
                  /\ "binary_image_resolved" \in DOMAIN store[r][j]
                  /\ store[r][j].binary_image_resolved = log[r][i].arg


\* The arches request r built and the arches it pushed, successfully.
BuiltOk(r) == {log[r][i].arg : i \in OkEvents(r, "buildah bud")}
PushedOk(r) == {log[r][i].arg : i \in OkEvents(r, "podman push")}

\* The images the registry holds under the per-arch references of request r.
StagedArches(r) ==
    {p[2].arch : p \in {q \in registry : q[2].kind = "image" /\ q[2].request = r}}

\* C19: whenever complete is persisted for a request, the arches it reports
\* are exactly the arches this execution built and pushed and exactly those
\* the published manifest list names, and the index_image it reports is the
\* canonical pull specification, under which that manifest list is published.
C19_CompleteReportsWhatWasPublished ==
    \A r \in Active :
        \A i \in 1..Len(store[r]) :
            store[r][i].state = "complete" =>
                /\ i = Len(store[r])
                /\ store[r][i].arches = BuiltOk(r)
                /\ store[r][i].arches = PushedOk(r)
                /\ store[r][i].arches = StagedArches(r)
                /\ store[r][i].arches = ListedArches(r)
                /\ store[r][i].arches # {}
                /\ store[r][i].index_image = "registry/iib-build:" \o ToString(r)
                /\ \E p \in registry :
                      /\ p[1] = "docker://" \o store[r][i].index_image
                      /\ p[2].kind = "list"
                      /\ \A k \in 1..Len(p[2].manifests) :
                            Published(registry, "docker://" \o p[2].manifests[k].image)

\* A request completed reporting amd64 and arm64 and registry/iib-build:1.
C19_Witness ==
    \E r \in Active :
        /\ pc[r] = "done"
        /\ store[r][Len(store[r])].state = "complete"
        /\ store[r][Len(store[r])].arches = {"amd64", "arm64"}
        /\ store[r][Len(store[r])].index_image = "registry/iib-build:1"
        /\ ListedArches(r) = {"amd64", "arm64"}


\* The manifest the registry holds for a digest-pinned reference.
ManifestAt(pull_spec) == manifestOf[DigestAt(pull_spec, tagDigest)]

\* The architectures of the members of a manifest list.
MemberArches(m) ==
    {m.manifests[i].platform.architecture : i \in 1..Len(m.manifests)}

UnsupportedMessage(pull_spec) ==
    "The pull specification of " \o pull_spec
        \o " is neither a v2 manifest list nor a v2 manifest"

\* The call of _get_image_arches(pull_spec) of request r whose raw inspection
\* is at position i of the log behaved as C20 says; returned is what the
\* caller holds of its result once it returned.
ArchesCallAsSpecified(r, i, pull_spec, returned) ==
    LET m == ManifestAt(pull_spec)
        n == Len(log[r])
        second == i < n /\ log[r][i + 1].op = "skopeo_inspect"
                        /\ log[r][i + 1].arg = "docker://" \o pull_spec
    IN  IF m.mediaType = ManifestListType
        THEN /\ ~second
             /\ returned = MemberArches(m)
        ELSE IF m.mediaType = ManifestType
        THEN /\ second
             /\ IF log[r][i + 1].ok
                THEN returned = {m.Architecture}
                ELSE Failed(r) /\ i + 1 = n
        ELSE /\ i = n
             /\ Failed(r)
             /\ err[r] = UnsupportedMessage(pull_spec)
             /\ returned = {}

Terminated(r) == pc[r] \in {"done", "failed"}

UsesBuildDir == {"build", "push"}
UsesManifestDir == {"manifest_tool"}

\* C22: the build scratch directory of a request exists only while the loop
\* that builds and pushes from it runs, and the directory of the manifest
\* descriptor only while the manifest publish tool is to run on it: once the
\* step using a directory has exited, by returning or by raising, the
\* directory is gone, and a request whose execution went past those steps or
\* failed has no scratch directory left; no step removes a directory of
\* another request.
C22_ScratchRemovedOnExit ==
    /\ [](\A r \in RequestIds :
            /\ scratch[r] \subseteq {"build", "manifest"}
            /\ "build" \in scratch[r] <=> pc[r] \in UsesBuildDir
            /\ "manifest" \in scratch[r] <=> pc[r] \in UsesManifestDir
            /\ (Failed(r) \/ pc[r] = "done") => scratch[r] = {})
    /\ [][\A r \in RequestIds :
            pc'[r] = pc[r] => scratch'[r] = scratch[r]]_vars

\* The manifest publish tool failed: the request raised and neither the
\* descriptor's directory nor the build directory exists.
C22_Witness ==
    \E r \in Active :
        /\ Failed(r)
        /\ OkEvents(r, "buildah bud") # {}
        /\ Events(r, "manifest-tool push") # {}
        /\ OkEvents(r, "manifest-tool push") = {}
        /\ scratch[r] = {}

====
